---- MODULE Spec2Model ----
(***************************************************************************)
(* Model of wm.py, the Streamlit script behind "Orion | Wealth Assistant". *)
(*                                                                         *)
(* Streamlit executes the whole script once per widget event; the only     *)
(* state that survives a run is st.session_state.  One action of this      *)
(* model is one script run: the session-state init block (lines 142-167),  *)
(* then the handler of the widget that fired, up to the st.rerun() that    *)
(* ends the run or, when no handler reruns, through the main UI (lines     *)
(* 350-409).  A run ended by st.rerun() is followed by a run with no       *)
(* widget event, which is the action ScriptRun.                            *)
(*                                                                         *)
(* Strings are kept as run-length texts: a sequence of segments            *)
(* [src, n], the first n characters of the source src, where src is a      *)
(* single repeated character or a string literal of the script.  The       *)
(* script only concatenates strings and takes prefixes of them, which      *)
(* this representation computes exactly, at the lengths the script uses.   *)
(***************************************************************************)
EXTENDS Integers, Sequences, FiniteSets, TLC

\* ------------------------------------------------------------------ bounds
\* uuid4() values the model may draw
MaxUuid == 4
\* messages the registry may hold, over all its chats
MaxMsgs == 3
\* chats the registry may hold
MaxChats == 3
\* files in one upload batch
MaxBatch == 2
\* cap on the uploader_version counter
MaxVersion == 3

\* --------------------------------------------------------------- constants
MAX_REPLY_CHARS == 4000
MAX_PROFILE_CHARS == 12000

\* the session-state key is absent
NoId == 0

\* --------------------------------------------------------------- strings
\* string literals of the script, with their lengths
LitLen(src) ==
  CASE src = "Error: " -> 7
    [] src = "# New Client Profile Added\n---\n" -> 31
    [] src = "\n\n# Additional Client Profiles (session)\n" -> 41
    [] src = "BASE_SYSTEM_PROMPT" -> 4496
    [] src = "OPP_PROMPT" -> 1430
    [] OTHER -> 0

IsLit(src) == LitLen(src) > 0

Str(src, n) == IF n = 0 THEN <<>> ELSE << [src |-> src, n |-> n] >>

RECURSIVE StrLen(_)
StrLen(t) == IF t = <<>> THEN 0 ELSE Head(t).n + StrLen(Tail(t))

\* t[:k]
RECURSIVE Slice(_, _)
Slice(t, k) ==
  IF t = <<>> \/ k <= 0 THEN <<>>
  ELSE IF Head(t).n >= k THEN << [src |-> Head(t).src, n |-> k] >>
  ELSE <<Head(t)>> \o Slice(Tail(t), k - Head(t).n)

\* a + b
Concat(a, b) ==
  IF a = <<>> THEN b
  ELSE IF b = <<>> THEN a
  ELSE LET la == a[Len(a)]
           hb == Head(b)
       IN IF la.src = hb.src /\ ~IsLit(la.src)
          THEN SubSeq(a, 1, Len(a) - 1)
                 \o << [src |-> la.src, n |-> la.n + hb.n] >>
                 \o Tail(b)
          ELSE a \o b

\* Python truthiness of a str
Truthy(t) == t # <<>>

_truncate(text, max_chars) ==
  IF StrLen(text) <= max_chars THEN text ELSE Slice(text, max_chars)

\* f"Error: {e}"
ErrorReply(e) == Concat(Str("Error: ", 7), e)

StartsWithError(t) == t # <<>> /\ Head(t) = [src |-> "Error: ", n |-> 7]

\* ------------------------------------------------------------------ chats
NoMeta == [pinned |-> FALSE, system |-> "none"]
OppsMeta == [pinned |-> TRUE, system |-> "opportunities"]

ChatName(k) == [label |-> "Chat #", num |-> k]
RecommendationsName == [label |-> "Recommendations", num |-> 0]

NewChat(id, name, meta) ==
  [id |-> id, name |-> name, messages |-> <<>>, meta |-> meta]

Message(role, content) == [role |-> role, content |-> content]

\* chats is the dict st.session_state.chats, kept as the sequence of its
\* items in insertion order
ChatIds(cs) == { cs[i].id : i \in 1..Len(cs) }

HasChat(cs, id) == \E i \in 1..Len(cs) : cs[i].id = id

IndexOf(cs, id) == CHOOSE i \in 1..Len(cs) : cs[i].id = id

GetChat(cs, id) == cs[IndexOf(cs, id)]

\* del chats[id]
DelChat(cs, id) == SelectSeq(cs, LAMBDA c : c.id # id)

\* chats[id] = chat, for an id that is not a key yet
PutChat(cs, chat) == Append(cs, chat)

\* AppendMessage replacing the log by the new message
AppendMessage_Replaces(cs, id, m) ==
  [i \in 1..Len(cs) |->
     IF cs[i].id = id
     THEN [cs[i] EXCEPT !.messages = <<m>>]
     ELSE cs[i]]

\* chats[id]["messages"].append(m)
AppendMessage(cs, id, m) ==
  [i \in 1..Len(cs) |->
     IF cs[i].id = id
     THEN [cs[i] EXCEPT !.messages = Append(@, m)]
     ELSE cs[i]]

\* ------------------------------------------------------------- documents
\* characters str.strip() removes
IsSpace(src) == src \in {" ", "\n"}

\* text.strip()
RECURSIVE LStrip(_)
LStrip(t) ==
  IF t = <<>> THEN <<>>
  ELSE IF IsSpace(Head(t).src) THEN LStrip(Tail(t))
  ELSE t

RECURSIVE RStrip(_)
RStrip(t) ==
  IF t = <<>> THEN <<>>
  ELSE IF IsSpace(t[Len(t)].src) THEN RStrip(SubSeq(t, 1, Len(t) - 1))
  ELSE t

Strip(t) == RStrip(LStrip(t))

\* text.replace("\x00", "")
RECURSIVE RemoveNul(_)
RemoveNul(t) ==
  IF t = <<>> THEN <<>>
  ELSE IF Head(t).src = "NUL" THEN RemoveNul(Tail(t))
  ELSE Concat(<<Head(t)>>, RemoveNul(Tail(t)))

\* the uploaded files the model draws from: the raw bytes, and what
\* fitz makes of them (the joined page text, or an exception)
Docs ==
  { [bytes |-> "plain", opens |-> TRUE,
     text |-> Concat(Str(" ", 1), Str("a", 3))],
    [bytes |-> "nul", opens |-> TRUE,
     text |-> Concat(Str("b", 1),
                     Concat(Str("NUL", 1), Str("b", MAX_PROFILE_CHARS)))],
    [bytes |-> "blank", opens |-> TRUE, text |-> Str("\n", 2)],
    [bytes |-> "broken", opens |-> FALSE, text |-> <<>>] }

\* hashlib.md5(content).hexdigest(): a digest determined by the bytes
md5_hexdigest(content) == <<"md5", content>>

\* f"# New Client Profile Added\n---\n{sanitized}\n"
ProfileFragment(sanitized) ==
  Concat(Str("# New Client Profile Added\n---\n", 31),
         Concat(sanitized, Str("\n", 1)))

\* --------------------------------------------------------- session state
\* the session state a script run works on, with the uuid4 values drawn so
\* far and what the run has done: rerun (st.rerun() was called), halted
\* (st.stop() was called), surfaced (the error the run showed or raised),
\* calls (completion requests the run issued), request (the messages of the
\* last request the run issued)
uuid4(w) == w.uuid + 1

\* EnsureDefaults making the pinned chat the active one
EnsureDefaults_PinnedActive(w) ==
  LET w1 == IF w.active_chat = NoId
            THEN [w EXCEPT !.chats = PutChat(@, NewChat(uuid4(w), ChatName(1), NoMeta)),
                           !.active_chat = uuid4(w),
                           !.uuid = uuid4(w)]
            ELSE w
  IN IF w1.opps_chat_id = NoId
     THEN [w1 EXCEPT !.opps_chat_id = uuid4(w1),
                     !.active_chat = uuid4(w1),
                     !.chats = PutChat(@, NewChat(uuid4(w1), RecommendationsName, OppsMeta)),
                     !.uuid = uuid4(w1)]
     ELSE w1

\* EnsureDefaults testing for the pinned chat under the active-chat key
EnsureDefaults_WrongKey(w) ==
  LET w1 == IF w.active_chat = NoId
            THEN [w EXCEPT !.chats = PutChat(@, NewChat(uuid4(w), ChatName(1), NoMeta)),
                           !.active_chat = uuid4(w),
                           !.uuid = uuid4(w)]
            ELSE w
  IN IF w1.active_chat # w1.opps_chat_id
     THEN [w1 EXCEPT !.opps_chat_id = uuid4(w1),
                     !.chats = PutChat(@, NewChat(uuid4(w1), RecommendationsName, OppsMeta)),
                     !.uuid = uuid4(w1)]
     ELSE w1

\* lines 142-167
EnsureDefaults(w) ==
  LET w1 == IF w.active_chat = NoId
            THEN [w EXCEPT !.chats = PutChat(@, NewChat(uuid4(w), ChatName(1), NoMeta)),
                           !.active_chat = uuid4(w),
                           !.uuid = uuid4(w)]
            ELSE w
  IN IF w1.opps_chat_id = NoId
     THEN [w1 EXCEPT !.opps_chat_id = uuid4(w1),
                     !.chats = PutChat(@, NewChat(uuid4(w1), RecommendationsName, OppsMeta)),
                     !.uuid = uuid4(w1)]
     ELSE w1

\* RecommendationsClick leaving the old pinned chat in place
RecommendationsClick_KeepsOld(w) ==
  LET new_id == uuid4(w)
  IN [w EXCEPT !.opps_chat_id = new_id,
               !.chats = PutChat(@, NewChat(new_id, RecommendationsName, OppsMeta)),
               !.active_chat = new_id,
               !.autorun = TRUE,
               !.uuid = new_id,
               !.rerun = TRUE]

\* RecommendationsClick emptying the pinned chat under its old id
RecommendationsClick_ReusesId(w) ==
  LET cs == IF w.opps_chat_id # NoId /\ HasChat(w.chats, w.opps_chat_id)
            THEN DelChat(w.chats, w.opps_chat_id)
            ELSE w.chats
  IN [w EXCEPT !.chats = PutChat(cs, NewChat(w.opps_chat_id, RecommendationsName, OppsMeta)),
               !.active_chat = w.opps_chat_id,
               !.autorun = TRUE,
               !.rerun = TRUE]

\* RecommendationsClick leaving the active pointer where it was
RecommendationsClick_KeepsActive(w) ==
  LET cs == IF w.opps_chat_id # NoId /\ HasChat(w.chats, w.opps_chat_id)
            THEN DelChat(w.chats, w.opps_chat_id)
            ELSE w.chats
      new_id == uuid4(w)
  IN [w EXCEPT !.opps_chat_id = new_id,
               !.chats = PutChat(cs, NewChat(new_id, RecommendationsName, OppsMeta)),
               !.autorun = TRUE,
               !.uuid = new_id,
               !.rerun = TRUE]

\* lines 182-201
RecommendationsClick(w) ==
  LET cs == IF w.opps_chat_id # NoId /\ HasChat(w.chats, w.opps_chat_id)
            THEN DelChat(w.chats, w.opps_chat_id)
            ELSE w.chats
      new_id == uuid4(w)
  IN [w EXCEPT !.opps_chat_id = new_id,
               !.chats = PutChat(cs, NewChat(new_id, RecommendationsName, OppsMeta)),
               !.active_chat = new_id,
               !.autorun = TRUE,
               !.uuid = new_id,
               !.rerun = TRUE]

\* lines 204-209
NewChatClick(w) ==
  LET new_id == uuid4(w)
  IN [w EXCEPT !.chats = PutChat(@, NewChat(new_id, ChatName(Len(w.chats) + 1), NoMeta)),
               !.active_chat = new_id,
               !.uuid = new_id,
               !.rerun = TRUE]

\* lines 216-222: the name button of a listed chat
SelectClick(w, chat_id) ==
  IF chat_id = w.opps_chat_id
  THEN w
  ELSE [w EXCEPT !.active_chat = chat_id, !.rerun = TRUE]

\* lines 233-239
next_ids(cs, opps_id) ==
  SelectSeq([i \in 1..Len(cs) |-> cs[i].id], LAMBDA cid : cid # opps_id)

Fallback(w) ==
  LET ids == next_ids(w.chats, w.opps_chat_id)
  IN IF ids # <<>>
     THEN [w EXCEPT !.active_chat = ids[1]]
     ELSE [w EXCEPT !.chats = PutChat(@, NewChat(uuid4(w), ChatName(1), NoMeta)),
                    !.active_chat = uuid4(w),
                    !.uuid = uuid4(w)]

\* lines 215-224: the chats whose bin button the run saw pressed
to_delete(w, chat_id) ==
  IF chat_id = w.opps_chat_id THEN <<>> ELSE <<chat_id>>

\* DeleteLoop leaving the active-chat pointer alone
DeleteLoop_NoFallback(w, chat_id) ==
  IF chat_id = w.opps_chat_id
  THEN w
  ELSE [w EXCEPT !.chats = DelChat(@, chat_id), !.rerun = TRUE]

\* lines 227-240, for the one chat_id of to_delete
DeleteLoop(w, chat_id) ==
  IF chat_id = w.opps_chat_id
  THEN w
  ELSE LET w1 == [w EXCEPT !.chats = DelChat(@, chat_id)]
           w2 == IF chat_id = w1.active_chat THEN Fallback(w1) ELSE w1
       IN [w2 EXCEPT !.rerun = TRUE]

\* DeleteClick treating the pinned chat like any other chat
DeleteClick_Unprotected(w, chat_id) ==
  LET w1 == [w EXCEPT !.chats = DelChat(@, chat_id)]
      w2 == IF chat_id = w1.active_chat THEN Fallback(w1) ELSE w1
  IN [w2 EXCEPT !.rerun = TRUE]

\* lines 212-240: the bin button of chat_id
DeleteClick(w, chat_id) ==
  LET td == to_delete(w, chat_id)
  IN IF td = <<>> THEN w ELSE DeleteLoop(w, td[1])

\* AddDocument without the test for a known hash
AddDocument_NoDedup(w, f) ==
  LET h == md5_hexdigest(f.bytes)
      text == Strip(f.text)
  IN IF ~f.opens THEN [w EXCEPT !.surfaced = "Failed to process"]
     ELSE IF ~Truthy(text) THEN w
     ELSE [w EXCEPT !.client_profiles = Append(@, ProfileFragment(RemoveNul(text))),
                    !.client_profile_hashes = @ \cup {h}]

\* AddDocument recording the hash before the text is extracted
AddDocument_HashFirst(w, f) ==
  LET h == md5_hexdigest(f.bytes)
      text == Strip(f.text)
      w1 == [w EXCEPT !.client_profile_hashes = @ \cup {h}]
  IN IF h \in w.client_profile_hashes THEN w
     ELSE IF ~f.opens THEN [w1 EXCEPT !.surfaced = "Failed to process"]
     ELSE IF ~Truthy(text) THEN w1
     ELSE [w1 EXCEPT !.client_profiles = Append(@, ProfileFragment(RemoveNul(text)))]

\* lines 299-315, for one uploaded file f
AddDocument(w, f) ==
  LET h == md5_hexdigest(f.bytes)
      text == Strip(f.text)
  IN IF h \in w.client_profile_hashes THEN w
     ELSE IF ~f.opens THEN [w EXCEPT !.surfaced = "Failed to process"]
     ELSE IF ~Truthy(text) THEN w
     ELSE [w EXCEPT !.client_profiles = Append(@, ProfileFragment(RemoveNul(text))),
                    !.client_profile_hashes = @ \cup {h}]

\* AddDocuments giving up the batch at the first file that fails to open
RECURSIVE AddDocuments_Aborts(_, _)
AddDocuments_Aborts(w, uploaded_pdfs) ==
  IF uploaded_pdfs = <<>> THEN w
  ELSE IF ~Head(uploaded_pdfs).opens
            /\ md5_hexdigest(Head(uploaded_pdfs).bytes) \notin w.client_profile_hashes
  THEN [w EXCEPT !.surfaced = "Failed to process"]
  ELSE AddDocuments_Aborts(AddDocument(w, Head(uploaded_pdfs)), Tail(uploaded_pdfs))

RECURSIVE AddDocuments(_, _)
AddDocuments(w, uploaded_pdfs) ==
  IF uploaded_pdfs = <<>> THEN w
  ELSE AddDocuments(AddDocument(w, Head(uploaded_pdfs)), Tail(uploaded_pdfs))

\* lines 297-317
Upload(w, uploaded_pdfs) ==
  IF uploaded_pdfs = <<>> THEN w
  ELSE [AddDocuments(w, uploaded_pdfs) EXCEPT !.uploader_version = @ + 1,
                                              !.rerun = TRUE]

\* WipeClick forgetting the hash set
WipeClick_KeepsHashes(w) ==
  [w EXCEPT !.client_profiles = <<>>,
            !.uploader_version = @ + 1,
            !.rerun = TRUE]

\* lines 323-327
WipeClick(w) ==
  [w EXCEPT !.client_profiles = <<>>,
            !.client_profile_hashes = {},
            !.uploader_version = @ + 1,
            !.rerun = TRUE]

\* ------------------------------------------------------- prompt and request
\* the literals of lines 71-120 and 123-139
BASE_SYSTEM_PROMPT == Str("BASE_SYSTEM_PROMPT", 4496)
OPP_PROMPT == Str("OPP_PROMPT", 1430)

\* "\n\n".join(profs)
RECURSIVE Join(_)
Join(profs) ==
  IF profs = <<>> THEN <<>>
  ELSE IF Len(profs) = 1 THEN profs[1]
  ELSE Concat(Concat(Head(profs), Str("\n", 2)), Join(Tail(profs)))

\* _build_system_prompt without the cut of the joined profiles
_build_system_prompt_NoCut(w) ==
  IF w.client_profiles # <<>>
  THEN Concat(Concat(BASE_SYSTEM_PROMPT,
                     Str("\n\n# Additional Client Profiles (session)\n", 41)),
              Join(w.client_profiles))
  ELSE BASE_SYSTEM_PROMPT

\* _build_system_prompt adding the section header to an empty store too
_build_system_prompt_AlwaysHeader(w) ==
  Concat(Concat(BASE_SYSTEM_PROMPT,
                Str("\n\n# Additional Client Profiles (session)\n", 41)),
         Slice(Join(w.client_profiles), MAX_PROFILE_CHARS))

\* lines 339-345
_build_system_prompt(w) ==
  IF w.client_profiles # <<>>
  THEN Concat(Concat(BASE_SYSTEM_PROMPT,
                     Str("\n\n# Additional Client Profiles (session)\n", 41)),
              Slice(Join(w.client_profiles), MAX_PROFILE_CHARS))
  ELSE BASE_SYSTEM_PROMPT

\* lines 34-39
RECURSIVE HistoryMessages(_)
HistoryMessages(history) ==
  IF history = <<>> THEN <<>>
  ELSE IF ~Truthy(Head(history).content) THEN HistoryMessages(Tail(history))
  ELSE << Message(Head(history).role, Head(history).content) >>
         \o HistoryMessages(Tail(history))

\* _build_messages keeping the messages of empty content
_build_messages_KeepsEmpty(system_prompt, history) ==
  << Message("system", system_prompt) >>
    \o [i \in 1..Len(history) |-> Message(history[i].role, history[i].content)]

\* lines 31-40
_build_messages(system_prompt, history) ==
  << Message("system", system_prompt) >> \o HistoryMessages(history)

\* ------------------------------------------------------------- main UI
\* what client.chat.completions.create does: it returns a message content
\* (None is an empty text here, as in `content or ""`) or raises e
ReplyLens == {0, MAX_REPLY_CHARS + 1}
ErrorLens == {1, MAX_REPLY_CHARS}

Completions ==
  { [kind |-> "ok", text |-> Str("r", n)] : n \in ReplyLens }
    \cup { [kind |-> "raise", text |-> Str("e", n)] : n \in ErrorLens }

\* what st.chat_input hands the run: nothing, blanks, or a text
Inputs == { <<>>, Str(" ", 3), Str("h", 2) }

\* lines 369-377 and 396-405
Reply(g) ==
  IF g.kind = "ok" THEN _truncate(g.text, MAX_REPLY_CHARS) ELSE ErrorReply(g.text)

\* Complete letting the exception of the request escape
Complete_Uncaught(w, g) ==
  IF ~w.api_key
  THEN [w EXCEPT !.surfaced = "Missing OPENAI_API_KEY", !.halted = TRUE,
                 !.request = <<>>]
  ELSE IF g.kind = "raise"
  THEN [w EXCEPT !.calls = @ + 1, !.surfaced = "Exception", !.halted = TRUE]
  ELSE [w EXCEPT !.calls = @ + 1,
                 !.chats = AppendMessage(@, w.active_chat,
                                         Message("assistant", Reply(g)))]

\* lines 18-24 and the request that follows, for the messages the caller
\* has put in w.request: _get_openai_client() stops the script, before any
\* request, when no API key is configured
Complete(w, g) ==
  IF ~w.api_key
  THEN [w EXCEPT !.surfaced = "Missing OPENAI_API_KEY", !.halted = TRUE,
                 !.request = <<>>]
  ELSE [w EXCEPT !.calls = @ + 1,
                 !.chats = AppendMessage(@, w.active_chat,
                                         Message("assistant", Reply(g)))]

\* AutoRun leaving the flag set
AutoRun_KeepsFlag(w, g) ==
  IF w.autorun /\ w.active_chat = w.opps_chat_id
  THEN Complete([w EXCEPT !.request = _build_messages(_build_system_prompt(w),
                                        << Message("user", OPP_PROMPT) >>)], g)
  ELSE w

\* AutoRun storing the prompt it sends
AutoRun_StoresPrompt(w, g) ==
  IF w.autorun /\ w.active_chat = w.opps_chat_id
  THEN Complete([w EXCEPT !.autorun = FALSE,
                          !.chats = AppendMessage(@, w.active_chat,
                                                  Message("user", OPP_PROMPT)),
                          !.request = _build_messages(_build_system_prompt(w),
                                        << Message("user", OPP_PROMPT) >>)], g)
  ELSE w

\* lines 365-381
AutoRun(w, g) ==
  IF w.autorun /\ w.active_chat = w.opps_chat_id
  THEN Complete([w EXCEPT !.autorun = FALSE,
                          !.request = _build_messages(_build_system_prompt(w),
                                        << Message("user", OPP_PROMPT) >>)], g)
  ELSE w

\* OnInput without the test of user_input
OnInput_NoCheck(w, user_input, g) ==
  LET cs == AppendMessage(w.chats, w.active_chat, Message("user", user_input))
  IN Complete([w EXCEPT !.chats = cs,
                        !.request = _build_messages(_build_system_prompt(w),
                                      GetChat(cs, w.active_chat).messages)], g)

\* lines 384-409
OnInput(w, user_input, g) ==
  IF Truthy(user_input)
  THEN LET cs == AppendMessage(w.chats, w.active_chat, Message("user", user_input))
       IN Complete([w EXCEPT !.chats = cs,
                             !.request = _build_messages(_build_system_prompt(w),
                                           GetChat(cs, w.active_chat).messages)], g)
  ELSE w

\* lines 350-409
MainUI(w, user_input, g_auto, g_send) ==
  IF ~HasChat(w.chats, w.active_chat)
  THEN [w EXCEPT !.surfaced = "KeyError", !.halted = TRUE]
  ELSE LET w1 == AutoRun(w, g_auto)
       IN IF w1.halted THEN w1 ELSE OnInput(w1, user_input, g_send)

\* --------------------------------------------------------------- state
VARIABLES chats, active_chat, opps_chat_id, autorun,
          client_profiles, client_profile_hashes, uploader_version,
          uuid, api_key, rerun, surfaced, calls, request, event

vars == <<chats, active_chat, opps_chat_id, autorun,
          client_profiles, client_profile_hashes, uploader_version,
          uuid, api_key, rerun, surfaced, calls, request, event>>

\* the session state at the start of a script run
World ==
  [chats |-> chats, active_chat |-> active_chat, opps_chat_id |-> opps_chat_id,
   autorun |-> autorun, client_profiles |-> client_profiles,
   client_profile_hashes |-> client_profile_hashes,
   uploader_version |-> uploader_version, uuid |-> uuid, api_key |-> api_key,
   rerun |-> FALSE, halted |-> FALSE, surfaced |-> "none", calls |-> 0,
   request |-> <<>>]

\* the session state a script run leaves behind
Commit(w) ==
  /\ chats' = w.chats
  /\ active_chat' = w.active_chat
  /\ opps_chat_id' = w.opps_chat_id
  /\ autorun' = w.autorun
  /\ client_profiles' = w.client_profiles
  /\ client_profile_hashes' = w.client_profile_hashes
  /\ uploader_version' = w.uploader_version
  /\ uuid' = w.uuid
  /\ api_key' = w.api_key
  /\ rerun' = w.rerun
  /\ surfaced' = w.surfaced
  /\ calls' = w.calls
  /\ request' = w.request

RECURSIVE TotalMessages(_)
TotalMessages(cs) ==
  IF cs = <<>> THEN 0 ELSE Len(Head(cs).messages) + TotalMessages(Tail(cs))

Within(w) ==
  /\ w.uuid <= MaxUuid
  /\ Len(w.chats) <= MaxChats
  /\ TotalMessages(w.chats) <= MaxMsgs
  /\ w.uploader_version <= MaxVersion

Event(widget, chat_id, text, g, files) ==
  [widget |-> widget, chat_id |-> chat_id, text |-> text,
   outcome |-> g, files |-> files]

NoCompletion == [kind |-> "none", text |-> <<>>]

\* the outcomes a run can meet: a request is only issued by a pending
\* auto-run (line 365) and for a user_input that is not empty (line 386)
AutoCompletions == IF autorun THEN Completions ELSE {NoCompletion}

SendCompletions(user_input) ==
  IF Truthy(user_input) THEN Completions ELSE {NoCompletion}

\* a run that reached the end of a handler without st.rerun() goes on
\* through the main UI
Finish(w, user_input, g_auto, g_send) ==
  IF w.rerun THEN w ELSE MainUI(w, user_input, g_auto, g_send)

\* a new browser session: an empty st.session_state, the first run due
Init ==
  /\ chats = <<>>
  /\ active_chat = NoId
  /\ opps_chat_id = NoId
  /\ autorun = FALSE
  /\ client_profiles = <<>>
  /\ client_profile_hashes = {}
  /\ uploader_version = 0
  /\ uuid = 0
  /\ api_key \in BOOLEAN
  /\ rerun = TRUE
  /\ surfaced = "none"
  /\ calls = 0
  /\ request = <<>>
  /\ event = Event("load", NoId, <<>>, NoCompletion, <<>>)

\* the run with no widget event: the first one, and the one st.rerun() asks for
ScriptRun ==
  /\ rerun
  /\ \E g \in AutoCompletions :
       LET w == Finish(EnsureDefaults(World), <<>>, g, g)
       IN /\ Within(w)
          /\ Commit(w)
          /\ event' = [event EXCEPT !.outcome =
                         IF w.calls > 0 THEN g ELSE @]

ClickRecommendations ==
  /\ ~rerun
  /\ LET w == RecommendationsClick(EnsureDefaults(World))
     IN /\ Within(w)
        /\ Commit(w)
        /\ event' = Event("opps_btn", NoId, <<>>, NoCompletion, <<>>)

ClickNewChat ==
  /\ ~rerun
  /\ LET w == NewChatClick(EnsureDefaults(World))
     IN /\ Within(w)
        /\ Commit(w)
        /\ event' = Event("new_chat_btn", NoId, <<>>, NoCompletion, <<>>)

\* the listed chats are the ones other than the pinned one (lines 216-218)
ClickChat ==
  /\ ~rerun
  /\ \E chat_id \in ChatIds(chats) \ {opps_chat_id} :
       LET w == SelectClick(EnsureDefaults(World), chat_id)
       IN /\ Within(w)
          /\ Commit(w)
          /\ event' = Event("chat_btn", chat_id, <<>>, NoCompletion, <<>>)

ClickDelete ==
  /\ ~rerun
  /\ \E chat_id \in ChatIds(chats) \ {opps_chat_id} :
       LET w == DeleteClick(EnsureDefaults(World), chat_id)
       IN /\ Within(w)
          /\ Commit(w)
          /\ event' = Event("del_btn", chat_id, <<>>, NoCompletion, <<>>)

\* a delete aimed at the pinned chat: the chat list gives it no bin button
\* (lines 217-218) and the delete loop skips it (lines 228-229), so the run
\* goes on through the main UI
DeletePinned ==
  /\ ~rerun
  /\ \E g \in AutoCompletions :
       LET w == Finish(DeleteClick(EnsureDefaults(World), opps_chat_id), <<>>, g, g)
       IN /\ Within(w)
          /\ Commit(w)
          /\ event' = Event("del_btn", opps_chat_id, <<>>,
                            IF w.calls > 0 THEN g ELSE NoCompletion, <<>>)

Batches ==
  UNION { [1..n -> Docs] : n \in 1..MaxBatch }

UploadFiles ==
  /\ ~rerun
  /\ \E uploaded_pdfs \in Batches :
       LET w == Upload(EnsureDefaults(World), uploaded_pdfs)
       IN /\ Within(w)
          /\ Commit(w)
          /\ event' = Event("client_pdf", NoId, <<>>, NoCompletion,
                            [i \in 1..Len(uploaded_pdfs) |-> uploaded_pdfs[i].bytes])

ClickWipe ==
  /\ ~rerun
  /\ LET w == WipeClick(EnsureDefaults(World))
     IN /\ Within(w)
        /\ Commit(w)
        /\ event' = Event("wipe_clients_btn", NoId, <<>>, NoCompletion, <<>>)

SubmitInput ==
  /\ ~rerun
  /\ \E user_input \in Inputs, g_auto \in AutoCompletions :
     \E g_send \in SendCompletions(user_input) :
       LET w == Finish(EnsureDefaults(World), user_input, g_auto, g_send)
       IN /\ Within(w)
          /\ Commit(w)
          /\ event' = Event("chat_input", active_chat, user_input,
                            IF Truthy(user_input) /\ w.calls > 0
                            THEN g_send ELSE NoCompletion, <<>>)

Next ==
  \/ ScriptRun
  \/ ClickRecommendations
  \/ ClickNewChat
  \/ ClickChat
  \/ ClickDelete
  \/ DeletePinned
  \/ UploadFiles
  \/ ClickWipe
  \/ SubmitInput

Spec == Init /\ [][Next]_vars

\* The chat handlers never read or write the profile store, and the profile
\* handlers never read or write the chats: the two halves are explored apart.
NextChats ==
  \/ ScriptRun
  \/ ClickRecommendations
  \/ ClickNewChat
  \/ ClickChat
  \/ ClickDelete
  \/ DeletePinned
  \/ SubmitInput

SpecChats == Init /\ [][NextChats]_vars

NextProfiles ==
  \/ ScriptRun
  \/ UploadFiles
  \/ ClickWipe

SpecProfiles == Init /\ [][NextProfiles]_vars

\* the profile handlers together with the user send, whose request carries
\* the system prompt built from the profile store
NextPrompt ==
  \/ ScriptRun
  \/ UploadFiles
  \/ ClickWipe
  \/ SubmitInput

SpecPrompt == Init /\ [][NextPrompt]_vars

\* ------------------------------------------------------------ properties
\* the first script run of the session has finished
SessionStarted == opps_chat_id # NoId

PinnedChats(cs) ==
  { i \in 1..Len(cs) : cs[i].meta.pinned /\ cs[i].meta.system = "opportunities" }

NormalChats(cs) == { i \in 1..Len(cs) : ~cs[i].meta.pinned }

\* the step is a run of the widget's handler
Handled(widget) == ~rerun /\ event'.widget = widget

\* C1: once the session has started, the chat mapping is never empty, holds
\* exactly one chat marked pinned/opportunities, and opps_chat_id is the id
\* of that chat.
C1_OnePinnedChat ==
  SessionStarted =>
    /\ Len(chats) > 0
    /\ Cardinality(PinnedChats(chats)) = 1
    /\ \A i \in PinnedChats(chats) : chats[i].id = opps_chat_id

\* a reset of the Recommendations tab and a delete have both happened, and
\* the pinned chat is the only chat left
C1_Witness ==
  /\ SessionStarted
  /\ event.widget = "del_btn"
  /\ uuid >= 3
  /\ Len(chats) = 1
  /\ chats[1].id = opps_chat_id

\* C2: once the session has started, the active-chat id is a key of the chat
\* mapping, and the lookup at the start of the main UI never fails.
C2_ActiveChatExists ==
  SessionStarted => HasChat(chats, active_chat) /\ surfaced # "KeyError"

\* the active chat was deleted and the handler had to synthesize a new one
C2_Witness ==
  /\ event.widget = "del_btn"
  /\ ~HasChat(chats, event.chat_id)
  /\ active_chat = uuid
  /\ GetChat(chats, active_chat).name = ChatName(1)

\* C3 as claimed: a delete aimed at the pinned chat fails with
\* ProtectedChatError (and leaves the state unchanged).
C3_Claimed ==
  (event.widget = "del_btn" /\ event.chat_id = opps_chat_id)
    => surfaced = "ProtectedChatError"

\* C3 as amended: a delete aimed at the pinned chat is ignored without any
\* error and leaves the whole state unchanged: the chat mapping with every
\* chat's messages, the active-chat pointer, opps_chat_id, the auto-run flag
\* and the profile store are as before, and no request is issued.
C3_PinnedDeleteIgnored ==
  [][(Handled("del_btn") /\ event'.chat_id = opps_chat_id) =>
       /\ chats' = chats
       /\ active_chat' = active_chat
       /\ opps_chat_id' = opps_chat_id
       /\ autorun' = autorun
       /\ client_profiles' = client_profiles
       /\ client_profile_hashes' = client_profile_hashes
       /\ surfaced' = "none"
       /\ calls' = 0
       /\ ~rerun']_vars

\* a delete was aimed at the pinned chat while it was active and held messages
C3_Witness ==
  /\ event.widget = "del_btn"
  /\ event.chat_id = opps_chat_id
  /\ active_chat = opps_chat_id
  /\ Len(GetChat(chats, opps_chat_id).messages) > 0

\* C4 as claimed: when the active chat is deleted the pinned opportunities
\* chat, which always exists, becomes the active chat.
C4_Claimed ==
  [][(Handled("del_btn") /\ event'.chat_id # opps_chat_id
        /\ event'.chat_id = active_chat)
       => active_chat' = opps_chat_id']_vars

\* C5: after the first run on an empty session exactly two chats exist, the
\* normal chat "Chat #1" and the pinned chat "Recommendations", both without
\* messages; the normal one is active and no auto-run is pending.
C5_FreshSession ==
  (event.widget = "load" /\ ~rerun) =>
    /\ Len(chats) = 2
    /\ \E i, j \in 1..Len(chats) :
         /\ chats[i].name = ChatName(1)
         /\ chats[i].meta = NoMeta
         /\ chats[i].messages = <<>>
         /\ chats[j].name = RecommendationsName
         /\ chats[j].meta = OppsMeta
         /\ chats[j].messages = <<>>
         /\ chats[j].id = opps_chat_id
         /\ active_chat = chats[i].id
    /\ ~autorun

C5_Witness == event.widget = "load" /\ ~rerun /\ uuid = 2

\* C6 as claimed: on every reachable state the initializer leaves at least
\* one normal chat and exactly one pinned opportunities chat, and running it
\* again changes nothing.
C6_Claimed ==
  LET w == EnsureDefaults(World)
  IN /\ Cardinality(NormalChats(w.chats)) >= 1
     /\ Cardinality(PinnedChats(w.chats)) = 1
     /\ EnsureDefaults(w) = w

\* C6 as amended: on every reachable state the initializer leaves a
\* non-empty chat mapping with exactly one pinned opportunities chat, and
\* running it again changes nothing; a normal chat is guaranteed only when it
\* runs on an empty session.
C6_InitializerIdempotent ==
  LET w == EnsureDefaults(World)
  IN /\ Len(w.chats) > 0
     /\ Cardinality(PinnedChats(w.chats)) = 1
     /\ EnsureDefaults(w) = w
     /\ (chats = <<>> => Cardinality(NormalChats(w.chats)) >= 1)

\* the initializer runs on a started session that has lost its normal chats
C6_Witness ==
  /\ SessionStarted
  /\ ~rerun
  /\ NormalChats(chats) = {}
  /\ Len(GetChat(chats, opps_chat_id).messages) > 0

\* the fragment the upload handler stores for a document
FragmentOf(d) == ProfileFragment(RemoveNul(Strip(d.text)))

Occurrences(seq, x) == Cardinality({ i \in 1..Len(seq) : seq[i] = x })

DocOf(bytes) == CHOOSE d \in Docs : d.bytes = bytes

\* C7: once a document's bytes have been added, a later add of the same
\* bytes, in the same batch or in a later one with no wipe in between, is a
\* no-op: a batch of known documents leaves the fragment list and the hash
\* set unchanged, and after any upload the store holds exactly one fragment
\* for each recorded hash.
C7_AddIsIdempotent ==
  [][Handled("client_pdf") =>
       /\ (\A i \in 1..Len(event'.files) :
              md5_hexdigest(event'.files[i]) \in client_profile_hashes)
            => /\ client_profiles' = client_profiles
               /\ client_profile_hashes' = client_profile_hashes
       /\ \A d \in Docs :
            md5_hexdigest(d.bytes) \in client_profile_hashes
              => /\ md5_hexdigest(d.bytes) \in client_profile_hashes'
                 /\ Occurrences(client_profiles', FragmentOf(d)) = 1
       /\ \A i \in 1..Len(event'.files) :
            Occurrences(client_profiles', FragmentOf(DocOf(event'.files[i]))) <= 1
       /\ Len(client_profiles') = Cardinality(client_profile_hashes')]_vars

\* a batch naming the same bytes twice went into a store that already held
\* another document, and left one fragment for those bytes
C7_Witness ==
  /\ event.widget = "client_pdf"
  /\ event.files = <<"plain", "plain">>
  /\ uploader_version >= 2
  /\ Len(client_profiles) = 2
  /\ Occurrences(client_profiles, FragmentOf(DocOf("plain"))) = 1

AssistantMessages(cs) ==
  UNION { { cs[i].messages[k] : k \in { k \in 1..Len(cs[i].messages) :
                                          cs[i].messages[k].role = "assistant" } }
          : i \in 1..Len(cs) }

\* C8 as claimed: every assistant message stored in a chat has a content of
\* at most MAX_REPLY_CHARS characters, whatever the completion request did.
C8_Claimed ==
  \A m \in AssistantMessages(chats) : StrLen(m.content) <= MAX_REPLY_CHARS

\* C9 as claimed: a submitted text that is empty after trimming is rejected:
\* no user message is appended, no request is issued and the message counts
\* are unchanged (the claimed EmptyInputError aside).
C9_Claimed ==
  [][(Handled("chat_input") /\ Strip(event'.text) = <<>>) =>
       /\ chats' = chats
       /\ calls' = 0]_vars

\* C9 as amended: an empty submission is dropped without any error: nothing
\* is appended, no request is issued and the message counts are unchanged.
\* A text of blanks only is not empty: it is appended to the active chat as
\* a user message like any other text.
C9_EmptyInputIgnored ==
  [][Handled("chat_input") =>
       /\ event'.text = <<>> =>
            /\ chats' = chats
            /\ calls' = 0
            /\ surfaced' = "none"
       /\ event'.text # <<>> =>
            LET before == GetChat(chats, active_chat).messages
                after == GetChat(chats', active_chat).messages
            IN /\ Len(after) > Len(before)
               /\ after[Len(before) + 1] = Message("user", event'.text)]_vars

\* an empty submission was made in a chat that holds messages
C9_Witness ==
  /\ event.widget = "chat_input"
  /\ event.text = <<>>
  /\ Len(GetChat(chats, active_chat).messages) > 0

\* C10: when the completion request of a user send raises, the active chat
\* grows by exactly two messages, the user message and then an assistant
\* message whose content starts with "Error: "; no other chat and no other
\* field of the session changes, and the run ends normally.
C10_GatewayFailure ==
  [][(Handled("chat_input") /\ event'.outcome.kind = "raise") =>
       LET before == GetChat(chats, active_chat).messages
           after == GetChat(chats', active_chat).messages
           n == Len(before)
       IN /\ Len(after) = n + 2
          /\ SubSeq(after, 1, n) = before
          /\ after[n + 1] = Message("user", event'.text)
          /\ after[n + 2].role = "assistant"
          /\ StartsWithError(after[n + 2].content)
          /\ Len(chats') = Len(chats)
          /\ \A i \in 1..Len(chats) :
               /\ chats'[i].id = chats[i].id
               /\ chats'[i].name = chats[i].name
               /\ chats'[i].meta = chats[i].meta
               /\ chats[i].id # active_chat => chats'[i] = chats[i]
          /\ active_chat' = active_chat
          /\ opps_chat_id' = opps_chat_id
          /\ autorun' = autorun
          /\ client_profiles' = client_profiles
          /\ client_profile_hashes' = client_profile_hashes
          /\ uploader_version' = uploader_version
          /\ surfaced' = "none"
          /\ calls' = 1
          /\ ~rerun']_vars

\* a user send in the pinned chat met a failing request
C10_Witness ==
  /\ event.widget = "chat_input"
  /\ event.outcome.kind = "raise"
  /\ active_chat = opps_chat_id
  /\ Len(chats) > 1
  /\ LET ms == GetChat(chats, active_chat).messages
     IN /\ Len(ms) >= 2
        /\ ms[Len(ms) - 1].role = "user"
        /\ StartsWithError(ms[Len(ms)].content)

\* requests a run issues for the user's own text
SendCalls == IF Handled("chat_input") /\ event'.text # <<>> THEN 1 ELSE 0

\* C11 as claimed: the run that finds the auto-run flag pending clears it
\* and issues exactly one auto-run request.
C11_Claimed ==
  [][autorun => (~autorun' /\ calls' = 1)]_vars

\* C11 as amended: the flag is a one-shot.  Only the Recommendations reset
\* sets it, issuing no request itself; the run that follows clears it before
\* the request, whether the request succeeds, fails or cannot be issued for
\* want of an API key; no other run sets it or issues an auto-run request.
\* So each reset causes at most one auto-run request, and exactly one when an
\* API key is configured.
C11_AutorunOneShot ==
  [][/\ (autorun' /\ ~autorun) => Handled("opps_btn")
     /\ Handled("opps_btn") => (autorun' /\ rerun' /\ calls' = 0)
     /\ autorun => /\ ~autorun'
                   /\ active_chat' = opps_chat_id
                   /\ calls' = IF api_key THEN 1 ELSE 0
                   /\ api_key => event'.outcome.kind \in {"ok", "raise"}
     /\ ~autorun => calls' <= SendCalls]_vars

\* the auto-run request of a reset failed and the flag is cleared
C11_Witness ==
  /\ event.widget = "opps_btn"
  /\ ~rerun
  /\ ~autorun
  /\ calls = 1
  /\ event.outcome.kind = "raise"
  /\ active_chat = opps_chat_id

StoredContents(cs) ==
  UNION { { cs[i].messages[k].content : k \in 1..Len(cs[i].messages) }
          : i \in 1..Len(cs) }

\* C12: a run that issues the auto-run request appends exactly one message
\* to the opportunities chat, an assistant message; the request carries the
\* opportunities prompt as its one user turn, and no chat ever stores it.
C12_AutorunStoresReplyOnly ==
  [][/\ (autorun /\ calls' > 0) =>
          LET before == GetChat(chats, opps_chat_id).messages
              after == GetChat(chats', opps_chat_id).messages
          IN /\ Len(after) = Len(before) + 1
             /\ SubSeq(after, 1, Len(before)) = before
             /\ after[Len(after)].role = "assistant"
             /\ Len(chats') = Len(chats)
             /\ \A i \in 1..Len(chats) :
                  chats[i].id # opps_chat_id => chats'[i] = chats[i]
             /\ Len(request') = 2
             /\ request'[2] = Message("user", OPP_PROMPT)
     /\ OPP_PROMPT \notin StoredContents(chats')]_vars

\* an auto-run has left its reply as the only message of the pinned chat
C12_Witness ==
  /\ event.widget = "opps_btn"
  /\ ~rerun
  /\ calls = 1
  /\ Len(request) = 2
  /\ Len(GetChat(chats, opps_chat_id).messages) = 1
  /\ GetChat(chats, opps_chat_id).messages[1].role = "assistant"

NonEmpty(m) == m.content # <<>>

\* C14: the messages of the request of a user send are the system message
\* followed by the messages of the active chat, the new user message
\* included, in their stored order and without those of empty content.
\* (No stored message carries a hidden flag; the builder reads none.)
C14_OutgoingMessages ==
  [][(Handled("chat_input") /\ calls' > 0) =>
       LET after == GetChat(chats', active_chat).messages
           history == SubSeq(after, 1, Len(after) - 1)
       IN /\ request'[1].role = "system"
          /\ request'[1].content = _build_system_prompt(World)
          /\ Tail(request') = SelectSeq(history, NonEmpty)
          /\ request'[Len(request')] = Message("user", event'.text)]_vars

\* a user send in a chat that held a reply of empty content
C14_Witness ==
  /\ event.widget = "chat_input"
  /\ calls = 1
  /\ LET ms == GetChat(chats, active_chat).messages
     IN /\ Len(ms) = 3
        /\ ms[1].content = <<>>
        /\ Len(request) = 2

\* the fragments of a store, first to last, with a blank line between them
RECURSIVE JoinedInOrder(_, _)
JoinedInOrder(profs, k) ==
  IF k = 0 THEN <<>>
  ELSE IF k = 1 THEN profs[1]
  ELSE Concat(Concat(JoinedInOrder(profs, k - 1), Str("\n", 2)), profs[k])

RECURSIVE SumLen(_)
SumLen(profs) ==
  IF profs = <<>> THEN 0 ELSE StrLen(Head(profs)) + SumLen(Tail(profs))

Min(a, b) == IF a <= b THEN a ELSE b

BaseSeg == [src |-> "BASE_SYSTEM_PROMPT", n |-> 4496]
HeaderSeg == [src |-> "\n\n# Additional Client Profiles (session)\n", n |-> 41]

\* the profile block of a system prompt: what follows the section header
ProfileBlock(sys) == IF Len(sys) >= 2 THEN SubSeq(sys, 3, Len(sys)) ELSE <<>>

\* C15: the profile block of the system prompt of a request is the stored
\* fragments joined in insertion order with a blank line between them and
\* cut to the first MAX_PROFILE_CHARS characters, so it is never longer than
\* that; with no fragments there is no block.
C15_ProfileBlock ==
  [][calls' > 0 =>
       LET block == ProfileBlock(request'[1].content)
           n == Len(client_profiles)
       IN /\ StrLen(block) <= MAX_PROFILE_CHARS
          /\ block = Slice(JoinedInOrder(client_profiles, n), MAX_PROFILE_CHARS)
          /\ StrLen(block) =
               IF n = 0 THEN 0
               ELSE Min(MAX_PROFILE_CHARS, SumLen(client_profiles) + 2 * (n - 1))
          /\ n = 0 => block = <<>>]_vars

\* a request went out with two stored fragments whose join had to be cut
C15_Witness ==
  /\ calls = 1
  /\ Len(client_profiles) = 2
  /\ SumLen(client_profiles) > MAX_PROFILE_CHARS
  /\ StrLen(ProfileBlock(request[1].content)) = MAX_PROFILE_CHARS

SegCount(t, seg) == Cardinality({ i \in 1..Len(t) : t[i].src = seg.src })

\* C16: the system prompt of a request is the base prompt alone when the
\* profile store is empty, and otherwise the base prompt, the section header
\* and a profile block that is not empty, each of the first two exactly once.
C16_SystemPrompt ==
  [][calls' > 0 =>
       LET sys == request'[1].content
       IN /\ request'[1].role = "system"
          /\ client_profiles = <<>> => sys = BASE_SYSTEM_PROMPT
          /\ client_profiles # <<>> =>
               /\ sys[1] = BaseSeg
               /\ sys[2] = HeaderSeg
               /\ SegCount(sys, BaseSeg) = 1
               /\ SegCount(sys, HeaderSeg) = 1
               /\ ProfileBlock(sys) # <<>>
               /\ ProfileBlock(sys) = Slice(Join(client_profiles), MAX_PROFILE_CHARS)]_vars

\* a request went out with one short fragment in the store
C16_Witness ==
  /\ calls = 1
  /\ Len(client_profiles) = 1
  /\ request[1].content =
       <<BaseSeg, HeaderSeg>> \o ProfileFragment(Str("a", 3))

Storable(d) == d.opens /\ Strip(d.text) # <<>>

\* C17: a wipe empties the fragment list and the hash set together and
\* leaves the chats and the active pointer as they are; into an empty store
\* every document with text is accepted as new, also one added before the
\* wipe.
C17_Wipe ==
  [][/\ Handled("wipe_clients_btn") =>
          /\ client_profiles' = <<>>
          /\ client_profile_hashes' = {}
          /\ chats' = chats
          /\ active_chat' = active_chat
          /\ opps_chat_id' = opps_chat_id
     /\ (Handled("client_pdf") /\ client_profile_hashes = {}) =>
          \A i \in 1..Len(event'.files) :
            Storable(DocOf(event'.files[i])) =>
              /\ md5_hexdigest(event'.files[i]) \in client_profile_hashes'
              /\ Occurrences(client_profiles', FragmentOf(DocOf(event'.files[i]))) = 1]_vars

\* a wipe, not the first change of the store, in a session whose chat holds
\* messages
C17_Witness ==
  /\ event.widget = "wipe_clients_btn"
  /\ uploader_version >= 2
  /\ client_profiles = <<>>
  /\ client_profile_hashes = {}
  /\ TotalMessages(chats) > 0

IsPrefix(a, b) == Len(a) <= Len(b) /\ SubSeq(b, 1, Len(a)) = a

\* C18: the message log of a chat is append-only for as long as its id stays
\* in the registry: over any step the old log is a prefix of the new one.
C18_AppendOnly ==
  [][\A id \in ChatIds(chats) \cap ChatIds(chats') :
       IsPrefix(GetChat(chats, id).messages, GetChat(chats', id).messages)]_vars

\* a log that grew twice: the auto-run reply, then a user send
C18_Witness ==
  /\ event.widget = "chat_input"
  /\ active_chat = opps_chat_id
  /\ Len(GetChat(chats, opps_chat_id).messages) = 3
  /\ GetChat(chats, opps_chat_id).messages[1].role = "assistant"
  /\ GetChat(chats, opps_chat_id).messages[2].role = "user"

\* the fragments an upload adds: those of the files with text whose hash is
\* not known, each at its first place in the batch
RECURSIVE NewFragments(_, _, _)
NewFragments(files, known, i) ==
  IF i > Len(files) THEN <<>>
  ELSE LET d == DocOf(files[i])
       IN IF /\ Storable(d)
             /\ md5_hexdigest(files[i]) \notin known
             /\ \A j \in 1..(i - 1) : files[j] # files[i]
          THEN <<FragmentOf(d)>> \o NewFragments(files, known, i + 1)
          ELSE NewFragments(files, known, i + 1)

NewHashes(files, known) ==
  { md5_hexdigest(files[i]) : i \in { i \in 1..Len(files) : Storable(DocOf(files[i])) } }

\* C19: a file of a batch that fails to open does not end the batch: every
\* other file is still handled and added if it is new, and the failing file
\* leaves neither a fragment nor a hash; the failure is shown.
C19_ExtractionFailure ==
  [][(Handled("client_pdf")
        /\ \E i \in 1..Len(event'.files) :
             /\ ~DocOf(event'.files[i]).opens
             /\ md5_hexdigest(event'.files[i]) \notin client_profile_hashes) =>
       /\ client_profiles' =
            client_profiles \o NewFragments(event'.files, client_profile_hashes, 1)
       /\ client_profile_hashes' =
            client_profile_hashes \cup NewHashes(event'.files, client_profile_hashes)
       /\ \A i \in 1..Len(event'.files) :
            ~DocOf(event'.files[i]).opens =>
              md5_hexdigest(event'.files[i]) \notin client_profile_hashes'
       /\ surfaced' = "Failed to process"
       /\ rerun']_vars

\* a batch whose first file failed to open added its second file
C19_Witness ==
  /\ event.widget = "client_pdf"
  /\ event.files = <<"broken", "plain">>
  /\ rerun
  /\ surfaced = "Failed to process"
  /\ client_profiles = << FragmentOf(DocOf("plain")) >>
  /\ client_profile_hashes = { md5_hexdigest("plain") }

\* C20: the store holds as many fragments as hashes, and the hash of a
\* document is recorded exactly when its fragment is stored; files that fail
\* to open or have no text record neither.
C20_FragmentsMatchHashes ==
  /\ Len(client_profiles) = Cardinality(client_profile_hashes)
  /\ \A d \in Docs :
       /\ md5_hexdigest(d.bytes) \in client_profile_hashes
            <=> (Storable(d) /\ Occurrences(client_profiles, FragmentOf(d)) = 1)
       /\ ~Storable(d) => md5_hexdigest(d.bytes) \notin client_profile_hashes
  /\ \A i \in 1..Len(client_profiles) :
       \E d \in Docs : Storable(d) /\ client_profiles[i] = FragmentOf(d)

\* a batch of a file without text and a file with text went into a store
\* that held a fragment
C20_Witness ==
  /\ event.widget = "client_pdf"
  /\ event.files = <<"blank", "nul">>
  /\ Len(client_profiles) = 2
  /\ Cardinality(client_profile_hashes) = 2

\* C21: while the auto-run flag is pending the active chat is the pinned
\* opportunities chat and its log is empty, and the run that follows is the
\* rerun the reset asked for: the flag is never pending with a normal chat
\* active, so no later action meets a flag left over.
C21_PendingAutorun ==
  autorun =>
    /\ HasChat(chats, opps_chat_id)
    /\ active_chat = opps_chat_id
    /\ GetChat(chats, active_chat).meta = OppsMeta
    /\ GetChat(chats, active_chat).messages = <<>>
    /\ Cardinality(PinnedChats(chats)) = 1
    /\ rerun

\* the flag is pending after a reset in a session whose normal chat holds
\* messages
C21_Witness ==
  /\ autorun
  /\ event.widget = "opps_btn"
  /\ TotalMessages(chats) > 0
  /\ \E i \in NormalChats(chats) : chats[i].messages # <<>>

====
